---- MODULE Spec2Model ----
(***************************************************************************)
(* Hidden Markov model of nltk_lite/tag/hmm.py: the engine                 *)
(* (HiddenMarkovModel), the trainer (HiddenMarkovModelTrainer) and the     *)
(* log-space primitive _log_add.                                           *)
(*                                                                         *)
(* Arithmetic.  The program works on float64 logarithms of probabilities.  *)
(* The model keeps them as records [k, n, d]: the value k * _NINF for      *)
(* k # 0 (then n = d = 1) and log(n / d), n and d coprime, for k = 0,      *)
(* where _NINF = -1e300 is the program's finite "log of zero".  Sums and   *)
(* differences of logs of rationals are exact.  Next to a multiple of      *)
(* _NINF the log of a probability is absorbed, as it is in float64, whose  *)
(* precision at 1e300 is 1e284; exp of a value at or below _NINF is 0, as *)
(* in float64.  Rounding of float64 is not modelled otherwise.              *)
(***************************************************************************)
EXTENDS Integers, Sequences, FiniteSets, TLC

VARIABLES
    model,      \* the HiddenMarkovModel object: symbols, states, transitions, outputs, priors
    sequence,   \* the caller's list of (text, tag) tokens handed to the engine
    ret,        \* what the last call returned or raised
    trainer,    \* the HiddenMarkovModelTrainer object: states, symbols
    data,       \* the training sequences handed to the trainer
    em          \* locals of train_unsupervised while its loop runs

vars == <<model, sequence, ret, trainer, data, em>>

\* longest token sequence handed to the engine
MaxT == 2

None == "None"

---------------------------------------------------------------------------
\* Exact rationals [n, d] in lowest terms (probabilities); d = 0 is overflow.

RECURSIVE GCD(_, _)
GCD(a, b) == IF b = 0 THEN a ELSE GCD(b, a % b)

Frac(n, d) == LET g == GCD(n, d) IN [n |-> n \div g, d |-> d \div g]

PZero == [n |-> 0, d |-> 1]
POne == [n |-> 1, d |-> 1]
PHalf == [n |-> 1, d |-> 2]
PInf == [n |-> 1, d |-> 0]

\* p * q, reduced before it is multiplied out
PMul(p, q) ==
    LET f == Frac(p.n, q.d)
        g == Frac(q.n, p.d)
    IN [n |-> f.n * g.n, d |-> f.d * g.d]
PAdd(p, q) ==
    LET g == GCD(p.d, q.d)
    IN Frac(p.n * (q.d \div g) + q.n * (p.d \div g), (p.d \div g) * q.d)
PLeq(p, q) == LET g == GCD(p.d, q.d) IN p.n * (q.d \div g) <= q.n * (p.d \div g)

RECURSIVE PSum(_)
PSum(ps) == IF Len(ps) = 0 THEN PZero ELSE PAdd(Head(ps), PSum(Tail(ps)))

---------------------------------------------------------------------------
\* Log values [k, n, d]

NINF == [k |-> 1, n |-> 1, d |-> 1]
LZero == [k |-> 0, n |-> 1, d |-> 1]

\* the float k * _NINF + log(f)
LogVal(k, f) == IF k = 0 THEN [k |-> 0, n |-> f.n, d |-> f.d] ELSE [k |-> k, n |-> 1, d |-> 1]

\* a + b on logs
LPlus(a, b) == LogVal(a.k + b.k, PMul([n |-> a.n, d |-> a.d], [n |-> b.n, d |-> b.d]))
\* a - b on logs
LMinus(a, b) == LogVal(a.k - b.k, PMul([n |-> a.n, d |-> a.d], [n |-> b.d, d |-> b.n]))
\* a > b on logs
LGt(a, b) ==
    a.k < b.k \/ (a.k = b.k /\ ~PLeq([n |-> a.n, d |-> a.d], [n |-> b.n, d |-> b.d]))
\* log(p) for a rational p > 0
Log(p) == [k |-> 0, n |-> p.n, d |-> p.d]
\* exp(v): 0 at and below the sentinel, overflow at its negative multiples
Exp(v) == IF v.k > 0 THEN PZero ELSE IF v.k = 0 THEN [n |-> v.n, d |-> v.d] ELSE PInf

RECURSIVE max_from(_, _, _)
max_from(values, i, m) ==
    IF i > Len(values) THEN m
    ELSE max_from(values, i + 1, IF LGt(values[i], m) THEN values[i] ELSE m)

max(values) == max_from(values, 2, values[1])

sum_diffs(values, x) == PSum([i \in 1..Len(values) |-> Exp(LMinus(values[i], x))])

\* _log_add with its first argument in place of "x = max(values)"
log_add_from_first(values) ==
    LET x == values[1] IN
    IF LGt(x, NINF) THEN LPlus(x, Log(sum_diffs(values, x))) ELSE x

\* lines 772-783
log_add(values) ==
    LET x == max(values) IN
    IF LGt(x, NINF) THEN LPlus(x, Log(sum_diffs(values, x))) ELSE x

---------------------------------------------------------------------------
\* The consumed distribution interface.  A distribution is [logs, data]:
\* a dictionary distribution stores probabilities (logs = FALSE), a mutable
\* one stores log-probabilities (logs = TRUE).

prob(pd, sample) ==
    IF sample \notin DOMAIN pd.data THEN PZero
    ELSE IF pd.logs THEN Exp(pd.data[sample]) ELSE pd.data[sample]

logprob(pd, sample) ==
    IF pd.logs /\ sample \in DOMAIN pd.data THEN pd.data[sample]
    ELSE IF prob(pd, sample) = PZero THEN NINF ELSE Log(prob(pd, sample))

DictionaryProbDist(f) == [logs |-> FALSE, data |-> f]

Range(s) == {s[i] : i \in 1..Len(s)}

---------------------------------------------------------------------------
\* HiddenMarkovModel

HiddenMarkovModel(symbols, states, transitions, outputs, priors) ==
    [symbols |-> symbols, states |-> states, transitions |-> transitions,
     outputs |-> outputs, priors |-> priors]

N(m) == Len(m.states)

output_logprob(m, state, symbol) == logprob(m.outputs[state], symbol)

Raise(op, err) == [op |-> op, raised |-> err]
Return(op, val) == [op |-> op, raised |-> "none", val |-> val]

\* scan_best with ">=" for ">": the last maximum wins
RECURSIVE scan_best_last(_, _, _)
scan_best_last(cands, i, best) ==
    IF i > Len(cands) THEN best
    ELSE scan_best_last(cands, i + 1,
                        IF best = <<>> \/ ~LGt(best[1], cands[i][1]) THEN cands[i] ELSE best)

\* the loop "best = None; for i: if not best or va > best[0]: best = (va, si)"
\* over the candidates cands[i] = <<va, si>>; best is <<>> while it is None
RECURSIVE scan_best(_, _, _)
scan_best(cands, i, best) ==
    IF i > Len(cands) THEN best
    ELSE scan_best(cands, i + 1,
                   IF best = <<>> \/ LGt(cands[i][1], best[1]) THEN cands[i] ELSE best)

\* V[0, :] and B[0, :]
viterbi_start(m, seq) ==
    [V |-> [i \in 1..N(m) |-> LPlus(logprob(m.priors, m.states[i]),
                                     output_logprob(m, m.states[i], seq[1].text))],
     B |-> [i \in 1..N(m) |-> None]]

\* viterbi_step with the transition term left out of the candidates
viterbi_step_no_transition(m, symbol, Vprev) ==
    LET best(j) == scan_best([i \in 1..N(m) |-> <<Vprev[i], m.states[i]>>], 1, <<>>)
    IN [V |-> [j \in 1..N(m) |-> LPlus(best(j)[1], output_logprob(m, m.states[j], symbol))],
        B |-> [j \in 1..N(m) |-> best(j)[2]]]

\* V[t, :] and B[t, :] from V[t-1, :]
viterbi_step(m, symbol, Vprev) ==
    LET best(j) == scan_best([i \in 1..N(m) |->
                                <<LPlus(Vprev[i], logprob(m.transitions[m.states[i]], m.states[j])),
                                  m.states[i]>>], 1, <<>>)
    IN [V |-> [j \in 1..N(m) |-> LPlus(best(j)[1], output_logprob(m, m.states[j], symbol))],
        B |-> [j \in 1..N(m) |-> best(j)[2]]]

\* rows 1..t of V and B (row t of the model is row t-1 of the program)
RECURSIVE viterbi(_, _, _)
viterbi(m, seq, t) ==
    IF t = 1 THEN <<viterbi_start(m, seq)>>
    ELSE LET rows == viterbi(m, seq, t - 1)
         IN Append(rows, viterbi_step(m, seq[t].text, rows[t - 1].V))

index(states, s) == CHOOSE i \in 1..Len(states) : states[i] = s /\ \A j \in 1..(i - 1) : states[j] # s

\* the states from time t down to time 1, starting at current
RECURSIVE traverse(_, _, _, _)
traverse(m, rows, t, current) ==
    IF t = 1 THEN <<current>>
    ELSE <<current>> \o traverse(m, rows, t - 1, rows[t].B[index(m.states, current)])

reverse(s) == [i \in 1..Len(s) |-> s[Len(s) + 1 - i]]

best_path_locals(m, seq) ==
    LET T == Len(seq)
        rows == viterbi(m, seq, T)
        best == scan_best([i \in 1..N(m) |-> <<rows[T].V[i], m.states[i]>>], 1, <<>>)
    IN [rows |-> rows, best |-> best,
        path |-> reverse(traverse(m, rows, T, best[2]))]

best_path(m, seq) ==
    IF Len(seq) = 0 THEN Raise("best_path", "IndexError")
    ELSE LET l == best_path_locals(m, seq)
         IN [op |-> "best_path", raised |-> "none", val |-> l.path,
             rows |-> l.rows, best |-> l.best]

\* tag: the new contents of the caller's list, which is also what is returned
tag(m, seq) ==
    LET r == best_path(m, seq) IN
    IF r.raised # "none" THEN Raise("tag", r.raised)
    ELSE Return("tag", [i \in 1..Len(seq) |->
                          IF i <= Len(r.val) THEN [text |-> seq[i].text, tag |-> r.val[i]]
                          ELSE seq[i]])

\* alpha[0, :]
forward_start(m, seq) ==
    [i \in 1..N(m) |-> LPlus(logprob(m.priors, m.states[i]),
                              logprob(m.outputs[m.states[i]], seq[1].text))]

\* "acc = _NINF; for j: acc = _log_add(acc, terms[j])"
RECURSIVE fold_log_add(_, _, _)
fold_log_add(terms, j, acc) ==
    IF j > Len(terms) THEN acc
    ELSE fold_log_add(terms, j + 1, log_add(<<acc, terms[j]>>))

\* forward_step with source and sink of the transition swapped
forward_step_transposed(m, symbol, prev) ==
    [i \in 1..N(m) |->
        LPlus(fold_log_add([j \in 1..N(m) |->
                              LPlus(prev[j], logprob(m.transitions[m.states[i]], m.states[j]))],
                           1, NINF),
              logprob(m.outputs[m.states[i]], symbol))]

\* alpha[t, :] from alpha[t-1, :]
forward_step(m, symbol, prev) ==
    [i \in 1..N(m) |->
        LPlus(fold_log_add([j \in 1..N(m) |->
                              LPlus(prev[j], logprob(m.transitions[m.states[j]], m.states[i]))],
                           1, NINF),
              logprob(m.outputs[m.states[i]], symbol))]

RECURSIVE forward_rows(_, _, _)
forward_rows(m, seq, t) ==
    IF t = 1 THEN <<forward_start(m, seq)>>
    ELSE LET rows == forward_rows(m, seq, t - 1)
         IN Append(rows, forward_step(m, seq[t].text, rows[t - 1]))

\* the T by N matrix alpha, or the IndexError of unlabelled_sequence[0]
forward_probability(m, seq) ==
    IF Len(seq) = 0 THEN Raise("_forward_probability", "IndexError")
    ELSE Return("_forward_probability", forward_rows(m, seq, Len(seq)))

\* backward_step with the emission of the next symbol left out
backward_step_no_output(m, symbol, next) ==
    [i \in 1..N(m) |->
        fold_log_add([j \in 1..N(m) |->
                        LPlus(logprob(m.transitions[m.states[i]], m.states[j]), next[j])],
                     1, NINF)]

\* beta[t, :] from beta[t+1, :], symbol = the text at t+1
backward_step(m, symbol, next) ==
    [i \in 1..N(m) |->
        fold_log_add([j \in 1..N(m) |->
                        LPlus(LPlus(logprob(m.transitions[m.states[i]], m.states[j]),
                                    logprob(m.outputs[m.states[j]], symbol)),
                              next[j])],
                     1, NINF)]

\* rows t..T of beta
RECURSIVE backward_rows(_, _, _)
backward_rows(m, seq, t) ==
    IF t = Len(seq) THEN <<[i \in 1..N(m) |-> LZero]>>
    ELSE LET rows == backward_rows(m, seq, t + 1)
         IN <<backward_step(m, seq[t + 1].text, rows[1])>> \o rows

\* the T by N matrix beta, or the IndexError of beta[T-1, :] on a 0 by N matrix
backward_probability(m, seq) ==
    IF Len(seq) = 0 THEN Raise("_backward_probability", "IndexError")
    ELSE Return("_backward_probability", backward_rows(m, seq, 1))

IsState(m, s) == s \in Range(m.states)

\* the labelled branch after tokens 1..t: [raised, val] with val the running p;
\* a tag that is no state raises KeyError when it addresses the keyed
\* collection of distributions
RECURSIVE joint_logprob(_, _, _)
joint_logprob(m, seq, t) ==
    IF t = 1 THEN
        IF IsState(m, seq[1].tag)
        THEN [raised |-> "none",
              val |-> LPlus(logprob(m.priors, seq[1].tag),
                            logprob(m.outputs[seq[1].tag], seq[1].text))]
        ELSE [raised |-> "KeyError"]
    ELSE LET p == joint_logprob(m, seq, t - 1) IN
         IF p.raised # "none" THEN p
         ELSE IF ~IsState(m, seq[t].tag) THEN [raised |-> "KeyError"]
         ELSE [raised |-> "none",
               val |-> LPlus(p.val, LPlus(logprob(m.transitions[seq[t - 1].tag], seq[t].tag),
                                          logprob(m.outputs[seq[t].tag], seq[t].text)))]

\* Python truth of a tag: None is false, a state name is true
Truthy(tg) == tg # None

log_probability(m, seq) ==
    LET T == Len(seq) IN
    IF T > 0 /\ Truthy(seq[1].tag) THEN
        LET p == joint_logprob(m, seq, T) IN
        IF p.raised # "none" THEN Raise("log_probability", p.raised)
        ELSE Return("log_probability", p.val)
    ELSE
        LET alpha == forward_probability(m, seq) IN
        IF alpha.raised # "none" THEN Raise("log_probability", alpha.raised)
        ELSE Return("log_probability",
                    log_add([i \in 1..N(m) |-> alpha.val[T][i]]))

\* entropy = normalisation - sum of p * l over the terms <<p, l>>, kept as
\* the normaliser and the list of terms in the order the program subtracts them
entropy(m, seq) ==
    LET T == Len(seq)
        fw == forward_probability(m, seq)
        bw == backward_probability(m, seq)
    IN
    IF fw.raised # "none" THEN Raise("entropy", fw.raised)
    ELSE IF bw.raised # "none" THEN Raise("entropy", bw.raised)
    ELSE
        LET alpha == fw.val
            beta == bw.val
            n == N(m)
            normalisation == log_add([i \in 1..n |-> alpha[T][i]])
            start == [i \in 1..n |->
                        [p |-> Exp(LMinus(LPlus(alpha[1][i], beta[1][i]), normalisation)),
                         l |-> logprob(m.priors, m.states[i])]]
            trans(t0) == [x \in 1..(n * n) |->
                LET i0 == ((x - 1) \div n) + 1
                    i1 == ((x - 1) % n) + 1
                    s0 == m.states[i0]
                    s1 == m.states[i1]
                IN [p |-> Exp(LMinus(LPlus(LPlus(LPlus(alpha[t0][i0],
                                                          logprob(m.transitions[s0], s1)),
                                                    logprob(m.outputs[s1], seq[t0 + 1].text)),
                                              beta[t0 + 1][i1]),
                                        normalisation)),
                    l |-> logprob(m.transitions[s0], s1)]]
            emit(t) == [i \in 1..n |->
                          [p |-> Exp(LMinus(LPlus(alpha[t][i], beta[t][i]), normalisation)),
                           l |-> logprob(m.outputs[m.states[i]], seq[t].text)]]
            Cat[t \in 0..T, which \in {"trans", "emit"}] ==
                IF t = 0 THEN <<>>
                ELSE IF which = "emit" THEN Cat[t - 1, which] \o emit(t)
                ELSE IF t = T THEN Cat[t - 1, which]
                ELSE Cat[t - 1, which] \o trans(t)
        IN Return("entropy", [normalisation |-> normalisation,
                              terms |-> start \o Cat[T, "trans"] \o Cat[T, "emit"]])

\* Values of the entropies.  An entropy is a sum of products p * l of a
\* probability and a log: the float k * _NINF for k # 0, and for k = 0 the
\* sum of lin[q] * log(q) over the primes q of DOMAIN lin, with rational
\* coefficients that are not zero.  nan marks a product with an overflowed
\* exp.

PrimeFactors(n) == {q \in 2..n : n % q = 0 /\ \A r \in 2..(q - 1) : q % r # 0}

RECURSIVE Valuation(_, _)
Valuation(n, q) == IF n % q = 0 THEN 1 + Valuation(n \div q, q) ELSE 0

Coefficient(lin, q) == IF q \in DOMAIN lin THEN lin[q] ELSE PZero

NonZero(lin) == [q \in {r \in DOMAIN lin : lin[r] # PZero} |-> lin[q]]

\* log(n / d) as a sum over primes
LinOfLog(l) ==
    NonZero([q \in PrimeFactors(l.n) \cup PrimeFactors(l.d) |->
                Frac(Valuation(l.n, q) - Valuation(l.d, q), 1)])

LinMinus(a, b) ==
    NonZero([q \in DOMAIN a \cup DOMAIN b |->
                LET y == Coefficient(b, q) IN
                PAdd(Coefficient(a, q), [n |-> 0 - y.n, d |-> y.d])])

LinScale(p, a) == NonZero([q \in DOMAIN a |-> PMul(p, a[q])])

FloatZero == [k |-> 0, lin |-> <<>>, nan |-> FALSE]

\* the float of a log value
FloatOfLog(l) ==
    IF l.k # 0 THEN [k |-> l.k, lin |-> <<>>, nan |-> FALSE]
    ELSE [k |-> 0, lin |-> LinOfLog(l), nan |-> FALSE]

\* p * l for a probability p and a log value l
FloatTimes(p, l) ==
    IF p = PInf \/ (l.k # 0 /\ p \notin {PZero, POne}) THEN [k |-> 0, lin |-> <<>>, nan |-> TRUE]
    ELSE IF p = PZero THEN FloatZero
    ELSE IF l.k # 0 THEN [k |-> l.k, lin |-> <<>>, nan |-> FALSE]
    ELSE [k |-> 0, lin |-> LinScale(p, LinOfLog(l)), nan |-> FALSE]

\* v - w on floats; beside a multiple of _NINF a finite value is absorbed
FloatMinus(v, w) ==
    IF v.nan \/ w.nan THEN [k |-> 0, lin |-> <<>>, nan |-> TRUE]
    ELSE IF v.k # 0 \/ w.k # 0 THEN [k |-> v.k - w.k, lin |-> <<>>, nan |-> FALSE]
    ELSE [k |-> 0, lin |-> LinMinus(v.lin, w.lin), nan |-> FALSE]

\* "entropy -= p * l" for the terms from the i-th on
RECURSIVE subtract_terms(_, _, _)
subtract_terms(v, terms, i) ==
    IF i > Len(terms) THEN v
    ELSE subtract_terms(FloatMinus(v, FloatTimes(terms[i].p, terms[i].l)), terms, i + 1)

\* the float entropy returns: lines 329-355
entropy_value(e) == subtract_terms(FloatOfLog(e.normalisation), e.terms, 1)

\* lines 357-379
point_entropy(m, seq) ==
    LET T == Len(seq)
        fw == forward_probability(m, seq)
        bw == backward_probability(m, seq)
    IN
    IF fw.raised # "none" THEN Raise("point_entropy", fw.raised)
    ELSE IF bw.raised # "none" THEN Raise("point_entropy", bw.raised)
    ELSE
        LET normalisation == log_add([i \in 1..N(m) |-> fw.val[T][i]])
            probs(t) == [s \in 1..N(m) |->
                           LMinus(LPlus(fw.val[t][s], bw.val[t][s]), normalisation)]
        IN Return("point_entropy",
                  [t \in 1..T |->
                     subtract_terms(FloatZero,
                                    [s \in 1..N(m) |-> [p |-> Exp(probs(t)[s]), l |-> probs(t)[s]]],
                                    1)])

\* lines 385-391 and 421-427: the labellings of T positions, as lists of
\* states, in the order the loops build them
RECURSIVE labellings(_, _)
labellings(m, T) ==
    IF T <= 1 THEN [i \in 1..N(m) |-> <<m.states[i]>>]
    ELSE LET current == labellings(m, T - 1) IN
         [x \in 1..(Len(current) * N(m)) |->
             Append(current[((x - 1) \div N(m)) + 1], m.states[((x - 1) % N(m)) + 1])]

\* lines 393-399 and 429-435: log_probability of the sequence under every
\* labelling, for a sequence that is not empty
labelling_log_probs(m, seq) ==
    LET ls == labellings(m, Len(seq)) IN
    [x \in 1..Len(ls) |->
        log_probability(m, [t \in 1..Len(seq) |->
                                [text |-> seq[t].text, tag |-> ls[x][t]]]).val]

\* lines 400-415
exhaustive_entropy(m, seq) ==
    LET log_probs == labelling_log_probs(m, seq)
        normalisation == log_add(log_probs)
    IN subtract_terms(FloatZero,
                      [x \in 1..Len(log_probs) |->
                          [p |-> Exp(LMinus(log_probs[x], normalisation)),
                           l |-> LMinus(log_probs[x], normalisation)]],
                      1)

\* the labellings from the x-th on that have the state at position t
RECURSIVE labellings_through(_, _, _, _)
labellings_through(ls, t, state, x) ==
    IF x > Len(ls) THEN <<>>
    ELSE (IF ls[x][t] = state THEN <<x>> ELSE <<>>) \o labellings_through(ls, t, state, x + 1)

\* lines 437-452
exhaustive_point_entropy(m, seq) ==
    LET ls == labellings(m, Len(seq))
        log_probs == labelling_log_probs(m, seq)
        normalisation == log_add(log_probs)
        probabilities(t, s) ==
            LET xs == labellings_through(ls, t, m.states[s], 1) IN
            fold_log_add([y \in 1..Len(xs) |-> LMinus(log_probs[xs[y]], normalisation)],
                         1, NINF)
    IN [t \in 1..Len(seq) |->
           subtract_terms(FloatZero,
                          [s \in 1..N(m) |->
                              [p |-> Exp(probabilities(t, s)), l |-> probabilities(t, s)]],
                          1)]

---------------------------------------------------------------------------
\* Inputs of the engine specification

States == <<"s1", "s2">>
Symbols == <<"a", "b">>

ProbValues == {PZero, PHalf, POne}

\* the distributions over samples with masses in ProbValues: proper ones have
\* total mass 1, the unvalidated constructor also takes deficient ones
Masses(samples) ==
    {f \in [Range(samples) -> ProbValues] :
        PLeq(PSum([i \in 1..Len(samples) |-> f[samples[i]]]), POne)}
ProperMasses(samples) ==
    {f \in Masses(samples) : PSum([i \in 1..Len(samples) |-> f[samples[i]]]) = POne}

Models ==
    {HiddenMarkovModel(Symbols, States,
                       [s \in Range(States) |-> DictionaryProbDist(tr[s])],
                       [s \in Range(States) |-> DictionaryProbDist(out[s])],
                       DictionaryProbDist(pr)) :
        tr \in [Range(States) -> Masses(States)],
        out \in [Range(States) -> ProperMasses(Symbols)],
        pr \in ProperMasses(States)}

Unlabelled(texts) == [i \in 1..Len(texts) |-> [text |-> texts[i], tag |-> None]]

UnlabelledSequences ==
    {Unlabelled(texts) : texts \in UNION {[1..T -> Range(Symbols)] : T \in 0..MaxT}}

NoCall == [op |-> "none", raised |-> "none"]
NoTrainer == [states |-> <<>>, symbols |-> <<>>]
NoEm == [pc |-> "idle"]

Init ==
    /\ model \in Models
    /\ sequence \in UnlabelledSequences
    /\ ret = NoCall
    /\ trainer = NoTrainer
    /\ data = <<>>
    /\ em = NoEm

BestPath ==
    /\ ret' = best_path(model, sequence)
    /\ UNCHANGED <<model, sequence, trainer, data, em>>

Tag ==
    /\ ret' = tag(model, sequence)
    /\ sequence' = IF ret'.raised = "none" THEN ret'.val ELSE sequence
    /\ UNCHANGED <<model, trainer, data, em>>

LogProbability ==
    /\ ret' = log_probability(model, sequence)
    /\ UNCHANGED <<model, sequence, trainer, data, em>>

ForwardProbability ==
    /\ ret' = forward_probability(model, sequence)
    /\ UNCHANGED <<model, sequence, trainer, data, em>>

BackwardProbability ==
    /\ ret' = backward_probability(model, sequence)
    /\ UNCHANGED <<model, sequence, trainer, data, em>>

Entropy ==
    /\ ret' = entropy(model, sequence)
    /\ UNCHANGED <<model, sequence, trainer, data, em>>

Next ==
    \/ BestPath
    \/ Tag
    \/ LogProbability
    \/ ForwardProbability
    \/ BackwardProbability
    \/ Entropy

Spec == Init /\ [][Next]_vars

\* The engine on sequences whose tokens carry a state label, or none, each

ProperModels ==
    {m \in Models : \A s \in Range(States) :
        /\ m.transitions[s].data \in ProperMasses(States)
        /\ m.priors.data \in ProperMasses(States)}

Tags == Range(States) \cup {None}

AnySequences ==
    UNION {[1..T -> [text : Range(Symbols), tag : Tags]] : T \in 0..MaxT}

InitLabelled ==
    /\ model \in ProperModels
    /\ sequence \in AnySequences
    /\ ret = NoCall
    /\ trainer = NoTrainer
    /\ data = <<>>
    /\ em = NoEm

SpecLabelled == InitLabelled /\ [][Next]_vars

PointEntropy ==
    /\ ret' = point_entropy(model, sequence)
    /\ UNCHANGED <<model, sequence, trainer, data, em>>

NextEntropy ==
    \/ Entropy
    \/ PointEntropy

\* entropy and point_entropy on unlabelled sequences
SpecEntropy == Init /\ [][NextEntropy]_vars

----------------------------------------------------------------------------
\* random_sample and _sample_probdist

\* longest sample asked of random_sample
MaxSampleLen == 2

\* _sample_probdist with the bracket open at its upper end:
\* "cum_p <= p < cum_p + add_p"
RECURSIVE sample_probdist_half_open(_, _, _, _, _)
sample_probdist_half_open(probdist, p, samples, i, cum_p) ==
    IF i > Len(samples) THEN [raised |-> "Exception"]
    ELSE LET add_p == prob(probdist, samples[i]) IN
         IF PLeq(cum_p, p) /\ PLeq(p, PAdd(cum_p, add_p)) /\ p # PAdd(cum_p, add_p)
         THEN [raised |-> "none", val |-> samples[i]]
         ELSE sample_probdist_half_open(probdist, p, samples, i + 1, PAdd(cum_p, add_p))

\* lines 283-289: the loop "for sample in samples" from the i-th sample on,
\* with cum_p as the loop has left it: [raised, val]
RECURSIVE sample_probdist(_, _, _, _, _)
sample_probdist(probdist, p, samples, i, cum_p) ==
    IF i > Len(samples) THEN [raised |-> "Exception"]
    ELSE LET add_p == prob(probdist, samples[i]) IN
         IF PLeq(cum_p, p) /\ PLeq(p, PAdd(cum_p, add_p))
         THEN [raised |-> "none", val |-> samples[i]]
         ELSE sample_probdist(probdist, p, samples, i + 1, PAdd(cum_p, add_p))

\* one state and one symbol: the state from state_dist with the next draw of
\* the stream, the symbol from the outputs of that state with the draw after
\* it; used counts the draws taken from the stream
sample_pair(m, state_dist, stream, used) ==
    LET st == sample_probdist(state_dist, stream[used + 1], m.states, 1, PZero) IN
    IF st.raised # "none" THEN [raised |-> st.raised, used |-> used + 1]
    ELSE LET sy == sample_probdist(m.outputs[st.val], stream[used + 2], m.symbols, 1, PZero) IN
         IF sy.raised # "none" THEN [raised |-> sy.raised, used |-> used + 2]
         ELSE [raised |-> "none", used |-> used + 2,
               token |-> [text |-> sy.val, tag |-> st.val]]

\* lines 273-278: "for i in range(1, length)"
RECURSIVE sample_rest(_, _, _, _, _, _)
sample_rest(m, stream, i, length, tokens, used) ==
    IF i >= length THEN [raised |-> "none", used |-> used, tokens |-> tokens]
    ELSE LET nxt == sample_pair(m, m.transitions[tokens[Len(tokens)].tag], stream, used) IN
         IF nxt.raised # "none" THEN [raised |-> nxt.raised, used |-> nxt.used]
         ELSE sample_rest(m, stream, i + 1, length, Append(tokens, nxt.token), nxt.used)

\* lines 265-280; stream holds the values rng.random() gives, in order, and
\* the result names the ones the call has taken
random_sample(m, stream, length) ==
    LET first == sample_pair(m, m.priors, stream, 0) IN
    IF first.raised # "none"
    THEN [op |-> "random_sample", raised |-> first.raised, length |-> length,
          rng |-> SubSeq(stream, 1, first.used)]
    ELSE LET rest == sample_rest(m, stream, 1, length, <<first.token>>, first.used) IN
         IF rest.raised # "none"
         THEN [op |-> "random_sample", raised |-> rest.raised, length |-> length,
               rng |-> SubSeq(stream, 1, rest.used)]
         ELSE [op |-> "random_sample", raised |-> "none", length |-> length,
               val |-> rest.tokens, rng |-> SubSeq(stream, 1, rest.used)]

\* values of rng.random(), which lie in [0, 1)
RandomDraws == {PHalf, Frac(3, 4)}

\* values of p handed to _sample_probdist
SampleDraws == RandomDraws \cup {PZero, Frac(1, 4), POne, Frac(5, 4)}

\* the most draws a call of random_sample can take
DrawsOf(length) == 2 * (IF length > 1 THEN length ELSE 1)

\* models to sample from: any priors and transitions, the second state
\* emitting the second symbol only
SampleModels == {m \in Models : m.outputs["s2"].data = [a |-> PZero, b |-> POne]}

InitSample ==
    /\ model \in SampleModels
    /\ sequence = <<>>
    /\ ret = NoCall
    /\ trainer = NoTrainer
    /\ data = <<>>
    /\ em = NoEm

RandomSample ==
    /\ \E length \in 0..MaxSampleLen :
         \E stream \in [1..DrawsOf(length) -> RandomDraws] :
            ret' = random_sample(model, stream, length)
    /\ UNCHANGED <<model, sequence, trainer, data, em>>

SampleProbdist ==
    /\ \E p \in SampleDraws :
         \E args \in {[probdist |-> model.priors, samples |-> model.states]}
                     \cup {[probdist |-> model.transitions[s], samples |-> model.states] :
                              s \in Range(model.states)}
                     \cup {[probdist |-> model.outputs[s], samples |-> model.symbols] :
                              s \in Range(model.states)} :
            LET r == sample_probdist(args.probdist, p, args.samples, 1, PZero) IN
            ret' = IF r.raised # "none"
                   THEN [op |-> "_sample_probdist", raised |-> r.raised,
                         probdist |-> args.probdist, p |-> p, samples |-> args.samples]
                   ELSE [op |-> "_sample_probdist", raised |-> "none", val |-> r.val,
                         probdist |-> args.probdist, p |-> p, samples |-> args.samples]
    /\ UNCHANGED <<model, sequence, trainer, data, em>>

NextSample ==
    \/ RandomSample
    \/ SampleProbdist

SpecSample == InitSample /\ [][NextSample]_vars

---------------------------------------------------------------------------
\* HiddenMarkovModelTrainer

\* longest labelled sequence of the supervised training data
MaxTrainLen == 2

\* "if states: ... else: []", likewise for the symbols; None is passed as <<>>
HiddenMarkovModelTrainer(states, symbols) ==
    [states |-> IF Len(states) > 0 THEN states ELSE <<>>,
     symbols |-> IF Len(symbols) > 0 THEN symbols ELSE <<>>]

\* frequency tables of the consumed interface: sample -> count, and
\* condition -> table
FreqDist == <<>>
inc(fd, sample) ==
    IF sample \in DOMAIN fd THEN [fd EXCEPT ![sample] = @ + 1]
    ELSE [x \in DOMAIN fd \cup {sample} |-> IF x = sample THEN 1 ELSE fd[x]]
cond_inc(cfd, condition, sample) ==
    [c \in DOMAIN cfd \cup {condition} |->
        IF c = condition THEN inc(IF c \in DOMAIN cfd THEN cfd[c] ELSE FreqDist, sample)
        ELSE cfd[c]]

RECURSIVE Total(_, _)
Total(fd, samples) ==
    IF samples = {} THEN 0
    ELSE LET x == CHOOSE x \in samples : TRUE IN fd[x] + Total(fd, samples \ {x})

\* the maximum likelihood estimate: count over total; nothing to estimate
\* from an empty table, every probability of which is 0
MLEProbDist(fd) ==
    [logs |-> FALSE, data |-> [x \in DOMAIN fd |-> Frac(fd[x], Total(fd, DOMAIN fd))]]

\* one distribution per condition of the table; a condition the table has
\* not seen gets the estimate of the empty table
ConditionalProbDist(cfd, conditions) ==
    [c \in conditions |-> MLEProbDist(IF c \in DOMAIN cfd THEN cfd[c] ELSE FreqDist)]

\* append_new without the test "if state not in self._states"
append_always(list, x) == Append(list, x)

\* lines 759-762: "if x not in list: list.append(x)"
append_new(list, x) == IF x \in Range(list) THEN list ELSE Append(list, x)

\* the body of "for token in sequence" with lasts never reset between
\* sequences
count_token_keep_lasts(loc, token, first) ==
    LET state == token.tag
        symbol == token.text
    IN [starting |-> IF loc.lasts = None THEN inc(loc.starting, state) ELSE loc.starting,
        transitions |-> IF loc.lasts = None THEN loc.transitions
                        ELSE cond_inc(loc.transitions, loc.lasts, state),
        outputs |-> cond_inc(loc.outputs, state, symbol),
        lasts |-> state,
        states |-> append_new(loc.states, state),
        symbols |-> append_new(loc.symbols, symbol)]

\* the body of "for token in sequence"; first: the token opens its sequence,
\* whose loop begins with lasts = None
count_token(loc, token, first) ==
    LET state == token.tag
        symbol == token.text
        lasts == IF first THEN None ELSE loc.lasts
    IN [starting |-> IF lasts = None THEN inc(loc.starting, state) ELSE loc.starting,
        transitions |-> IF lasts = None THEN loc.transitions
                        ELSE cond_inc(loc.transitions, lasts, state),
        outputs |-> cond_inc(loc.outputs, state, symbol),
        lasts |-> state,
        states |-> append_new(loc.states, state),
        symbols |-> append_new(loc.symbols, symbol)]

RECURSIVE count_sequence(_, _, _)
count_sequence(loc, seq, t) ==
    IF t > Len(seq) THEN loc
    ELSE count_sequence(count_token(loc, seq[t], t = 1), seq, t + 1)

RECURSIVE count_sequences(_, _, _)
count_sequences(loc, seqs, q) ==
    IF q > Len(seqs) THEN loc
    ELSE count_sequences(count_sequence(loc, seqs[q], 1), seqs, q + 1)

\* train_supervised_counts starting from empty lists in place of the
\* trainer's own
train_supervised_counts_fresh_lists(tr, labelled_sequences) ==
    count_sequences([starting |-> FreqDist, transitions |-> <<>>, outputs |-> <<>>,
                     lasts |-> None, states |-> <<>>, symbols |-> <<>>],
                    labelled_sequences, 1)

\* the locals of train_supervised after its counting loop
train_supervised_counts(tr, labelled_sequences) ==
    count_sequences([starting |-> FreqDist, transitions |-> <<>>, outputs |-> <<>>,
                     lasts |-> None, states |-> tr.states, symbols |-> tr.symbols],
                    labelled_sequences, 1)

\* the model train_supervised returns with the default estimator
train_supervised(tr, labelled_sequences) ==
    LET loc == train_supervised_counts(tr, labelled_sequences)
        pi == MLEProbDist(loc.starting)
        A == ConditionalProbDist(loc.transitions, Range(loc.states))
        B == ConditionalProbDist(loc.outputs, Range(loc.states))
    IN HiddenMarkovModel(loc.symbols, loc.states, A, B, pi)

NoModel == [states |-> <<>>]

LabelledSequences ==
    UNION {[1..T -> [text : Range(Symbols), tag : Range(States)]] : T \in 0..MaxTrainLen}

LabelledData == UNION {[1..n -> LabelledSequences] : n \in 0..2}

TrainerArguments(all) == {<<>>, all, Tail(all)}

InitSup ==
    /\ trainer \in {HiddenMarkovModelTrainer(st, sy) :
                       st \in TrainerArguments(States), sy \in TrainerArguments(Symbols)}
    /\ data \in LabelledData
    /\ model = NoModel
    /\ sequence = <<>>
    /\ ret = NoCall
    /\ em = NoEm

TrainSupervised ==
    /\ model' = train_supervised(trainer, data)
    /\ trainer' = [states |-> model'.states, symbols |-> model'.symbols]
    /\ ret' = Return("train_supervised", model')
    /\ UNCHANGED <<sequence, data, em>>

NextSup == TrainSupervised

SpecSup == InitSup /\ [][NextSup]_vars

\* a trainer used for one call of train_supervised after another, each with
\* data of its own

RECURSIVE Flatten(_)
Flatten(seqs) == IF Len(seqs) = 0 THEN <<>> ELSE Head(seqs) \o Flatten(Tail(seqs))

\* the data of one call: at most MaxTrainLen tokens in all
CallData == {d \in LabelledData : Len(Flatten(d)) <= MaxTrainLen}

InitSupCalls ==
    /\ trainer \in {HiddenMarkovModelTrainer(st, sy) :
                       st \in TrainerArguments(States), sy \in TrainerArguments(Symbols)}
    /\ data = <<>>
    /\ model = NoModel
    /\ sequence = <<>>
    /\ ret = NoCall
    /\ em = NoEm

\* one call on the trainer as the calls before left it; before records the
\* trainer's lists at the time of the call
TrainSupervisedOn ==
    /\ \E labelled_sequences \in CallData :
          /\ data' = labelled_sequences
          /\ model' = train_supervised(trainer, labelled_sequences)
    /\ trainer' = [states |-> model'.states, symbols |-> model'.symbols]
    /\ ret' = [op |-> "train_supervised", raised |-> "none", val |-> model',
               before |-> trainer]
    /\ UNCHANGED <<sequence, em>>

NextSupCalls == TrainSupervisedOn

SpecSupCalls == InitSupCalls /\ [][NextSupCalls]_vars

----------------------------------------------------------------------------
\* _log_add on its own

\* most arguments handed to _log_add
MaxLogArgs == 3

\* arguments: the sentinel, twice the sentinel, and logs of probabilities
LogValues ==
    {NINF, LPlus(NINF, NINF), LZero, Log(PHalf), Log(Frac(1, 4)), Log(Frac(3, 4))}

InitLogAdd ==
    /\ model = NoModel
    /\ sequence = <<>>
    /\ ret = NoCall
    /\ trainer = NoTrainer
    /\ data = <<>>
    /\ em = NoEm

LogAdd ==
    /\ \E n \in 1..MaxLogArgs :
         \E values \in [1..n -> LogValues] :
            ret' = [op |-> "_log_add", raised |-> "none", values |-> values,
                    val |-> log_add(values)]
    /\ UNCHANGED <<model, sequence, trainer, data, em>>

SpecLogAdd == InitLogAdd /\ [][LogAdd]_vars

---------------------------------------------------------------------------
\* train_unsupervised

\* most EM iterations a caller asks for
MaxIter == 3
\* longest unlabelled sequence of the unsupervised training data
MaxEmLen == 2

UniformProbDist(samples) ==
    [logs |-> FALSE, data |-> [x \in Range(samples) |-> Frac(1, Cardinality(Range(samples)))]]

MutableProbDist(pd, samples) ==
    [logs |-> TRUE, data |-> [x \in Range(samples) |-> logprob(pd, x)]]

\* MutableProbDist.update(sample, log_prob)
update(pd, sample, log_prob) == [pd EXCEPT !.data[sample] = log_prob]

\* |v| on logs
LAbs(v) ==
    IF v.k > 0 \/ (v.k = 0 /\ v.n < v.d) THEN [k |-> 0 - v.k, n |-> v.d, d |-> v.n] ELSE v

\* the model the loop starts from: the seed, or a uniform one when there is
\* none, its distributions replaced by mutable ones over the trainer's lists
\* em_start whose uniform emissions are spread over the states instead of
\* the symbols
em_start_outputs_over_states(tr, seed) ==
    LET m == IF seed = NoModel
             THEN HiddenMarkovModel(tr.symbols, tr.states,
                                    [s \in Range(tr.states) |-> UniformProbDist(tr.states)],
                                    [s \in Range(tr.states) |-> UniformProbDist(tr.states)],
                                    UniformProbDist(tr.states))
             ELSE seed
    IN [m EXCEPT
          !.priors = MutableProbDist(m.priors, tr.states),
          !.transitions = [s \in Range(tr.states) |-> MutableProbDist(m.transitions[s], tr.states)],
          !.outputs = [s \in Range(tr.states) |-> MutableProbDist(m.outputs[s], tr.symbols)]]

\* lines 604-623: the uniform model unless a seed is given, and its
\* distributions rebound to mutable copies; with a seed it is the seed object
\* itself whose attributes are rebound
em_start(tr, seed) ==
    LET m == IF seed = NoModel
             THEN HiddenMarkovModel(tr.symbols, tr.states,
                                    [s \in Range(tr.states) |-> UniformProbDist(tr.states)],
                                    [s \in Range(tr.states) |-> UniformProbDist(tr.symbols)],
                                    UniformProbDist(tr.states))
             ELSE seed
    IN [m EXCEPT
          !.priors = MutableProbDist(m.priors, tr.states),
          !.transitions = [s \in Range(tr.states) |-> MutableProbDist(m.transitions[s], tr.states)],
          !.outputs = [s \in Range(tr.states) |-> MutableProbDist(m.outputs[s], tr.symbols)]]

\* "while not converged and iteration < max_iterations" with "<=" for "<"
loop_condition_off_by_one(e) == ~e.converged /\ e.iteration <= e.max_iterations

\* "while not converged and iteration < max_iterations"
loop_condition(e) == ~e.converged /\ e.iteration < e.max_iterations

\* "iteration > 0 and abs(logprob - last_logprob) < epsilon"
convergence_test(iteration, total, last_logprob, epsilon) ==
    iteration > 0 /\ LGt(epsilon, LAbs(LMinus(total, last_logprob)))

\* the positions t..T of the sequence that hold the symbol, in order
RECURSIVE positions_of(_, _, _)
positions_of(seq, symbol, t) ==
    IF t > Len(seq) THEN <<>>
    ELSE (IF seq[t].text = symbol THEN <<t>> ELSE <<>>) \o positions_of(seq, symbol, t + 1)

\* the sums of one sequence: local_A_numer, local_B_numer, local_A_denom,
\* local_B_denom after the loop over the positions, and lpk
local_sums(tr, m, seq, alpha, beta) ==
    LET T == Len(seq)
        n == Len(tr.states)
        gamma(t, i) == LPlus(alpha[t][i], beta[t][i])
        A_denom == [i \in 1..n |->
                      fold_log_add([t \in 1..(T - 1) |-> gamma(t, i)], 1, NINF)]
    IN [lpk |-> log_add(alpha[T]),
        A_numer |-> [i \in 1..n |-> [j \in 1..n |->
            fold_log_add([t \in 1..(T - 1) |->
                            LPlus(LPlus(LPlus(alpha[t][i],
                                              logprob(m.transitions[tr.states[i]], tr.states[j])),
                                        logprob(m.outputs[tr.states[j]], seq[t + 1].text)),
                                  beta[t + 1][j])],
                         1, NINF)]],
        A_denom |-> A_denom,
        \* assigned once, at the last position, from local_A_denom
        B_denom |-> [i \in 1..n |-> log_add(<<A_denom[i], gamma(T, i)>>)],
        B_numer |-> [i \in 1..n |-> [k \in 1..Len(tr.symbols) |->
            LET ts == positions_of(seq, tr.symbols[k], 1)
            IN fold_log_add([x \in 1..Len(ts) |-> gamma(ts[x], i)], 1, NINF)]]]

\* the sums of the iteration with one more sequence added, each normalised by lpk
\* add_sums that stores the sums of the sequence instead of adding them to
\* the sums of the sequences before it
add_sums_overwriting(tr, acc, loc) ==
    LET n == Len(tr.states) IN
    [logprob |-> LPlus(acc.logprob, loc.lpk),
     A_numer |-> [i \in 1..n |-> [j \in 1..n |-> LMinus(loc.A_numer[i][j], loc.lpk)]],
     B_numer |-> [i \in 1..n |-> [k \in 1..Len(tr.symbols) |->
                    LMinus(loc.B_numer[i][k], loc.lpk)]],
     A_denom |-> [i \in 1..n |-> LMinus(loc.A_denom[i], loc.lpk)],
     B_denom |-> [i \in 1..n |-> LMinus(loc.B_denom[i], loc.lpk)]]

add_sums(tr, acc, loc) ==
    LET n == Len(tr.states) IN
    [logprob |-> LPlus(acc.logprob, loc.lpk),
     A_numer |-> [i \in 1..n |-> [j \in 1..n |->
                    log_add(<<acc.A_numer[i][j], LMinus(loc.A_numer[i][j], loc.lpk)>>)]],
     B_numer |-> [i \in 1..n |-> [k \in 1..Len(tr.symbols) |->
                    log_add(<<acc.B_numer[i][k], LMinus(loc.B_numer[i][k], loc.lpk)>>)]],
     A_denom |-> [i \in 1..n |-> log_add(<<acc.A_denom[i], LMinus(loc.A_denom[i], loc.lpk)>>)],
     B_denom |-> [i \in 1..n |-> log_add(<<acc.B_denom[i], LMinus(loc.B_denom[i], loc.lpk)>>)]]

\* A_numer, B_numer, A_denom, B_denom and logprob at the top of an iteration
zero_sums(tr) ==
    [logprob |-> LZero,
     A_numer |-> [i \in 1..Len(tr.states) |-> [j \in 1..Len(tr.states) |-> NINF]],
     B_numer |-> [i \in 1..Len(tr.states) |-> [k \in 1..Len(tr.symbols) |-> NINF]],
     A_denom |-> [i \in 1..Len(tr.states) |-> NINF],
     B_denom |-> [i \in 1..Len(tr.states) |-> NINF]]

\* "for sequence in unlabelled_sequences" from sequence q on: [raised, val]
RECURSIVE accumulate(_, _, _, _, _)
accumulate(tr, m, seqs, q, acc) ==
    IF q > Len(seqs) THEN [raised |-> "none", val |-> acc]
    ELSE LET fw == forward_probability(m, seqs[q])
             bw == backward_probability(m, seqs[q])
         IN IF fw.raised # "none" THEN [raised |-> fw.raised]
            ELSE IF bw.raised # "none" THEN [raised |-> bw.raised]
            ELSE accumulate(tr, m, seqs, q + 1,
                            add_sums(tr, acc, local_sums(tr, m, seqs[q], fw.val, bw.val)))

\* reestimate that sets the priors as well, to the share of each state in
\* the expected state occupancy
reestimate_with_priors(tr, m, acc) ==
    [m EXCEPT
       !.priors = [m.priors EXCEPT !.data =
           [s \in DOMAIN m.priors.data |->
               LMinus(acc.B_denom[index(tr.states, s)], log_add(acc.B_denom))]],
       !.transitions = [s \in DOMAIN m.transitions |->
           [m.transitions[s] EXCEPT !.data =
               [x \in DOMAIN m.transitions[s].data |->
                   LMinus(acc.A_numer[index(tr.states, s)][index(tr.states, x)],
                          acc.A_denom[index(tr.states, s)])]]],
       !.outputs = [s \in DOMAIN m.outputs |->
           [m.outputs[s] EXCEPT !.data =
               [x \in DOMAIN m.outputs[s].data |->
                   LMinus(acc.B_numer[index(tr.states, s)][index(tr.symbols, x)],
                          acc.B_denom[index(tr.states, s)])]]]]

\* the model after "update(sj, A_numer[i,j] - A_denom[i])" and
\* "update(ok, B_numer[i,k] - B_denom[i])" for all i, j, k; the priors stay
reestimate(tr, m, acc) ==
    [m EXCEPT
       !.transitions = [s \in DOMAIN m.transitions |->
           [m.transitions[s] EXCEPT !.data =
               [x \in DOMAIN m.transitions[s].data |->
                   LMinus(acc.A_numer[index(tr.states, s)][index(tr.states, x)],
                          acc.A_denom[index(tr.states, s)])]]],
       !.outputs = [s \in DOMAIN m.outputs |->
           [m.outputs[s] EXCEPT !.data =
               [x \in DOMAIN m.outputs[s].data |->
                   LMinus(acc.B_numer[index(tr.states, s)][index(tr.symbols, x)],
                          acc.B_denom[index(tr.states, s)])]]]]

Epsilons == {LZero, Log(Frac(2, 1)), [k |-> -1, n |-> 1, d |-> 1]}

UnlabelledTraining ==
    {Unlabelled(texts) : texts \in UNION {[1..T -> Range(Symbols)] : T \in 0..MaxEmLen}}

UnlabelledData == UNION {[1..n -> UnlabelledTraining] : n \in 0..2}

Uniform2 == [s \in Range(States) |-> PHalf]

UniformOutput == [x \in Range(Symbols) |-> PHalf]

\* seed models: with certain priors, the second state's transitions and the
\* first state's emissions uniform; with uniform priors, uniform transitions
\* and emissions that are all certain or all uniform.  Three exact iterations
\* from these stay within the integers TLC computes with.
SeedModels ==
    {m \in ProperModels :
        \/ /\ m.priors.data # Uniform2
           /\ m.transitions["s2"].data = Uniform2
           /\ m.outputs["s1"].data = UniformOutput
        \/ /\ m.priors.data = Uniform2
           /\ \A s \in Range(States) : m.transitions[s].data = Uniform2
           /\ \/ \A s \in Range(States) : m.outputs[s].data # UniformOutput
              \/ \A s \in Range(States) : m.outputs[s].data = UniformOutput}

InitEM ==
    /\ trainer = HiddenMarkovModelTrainer(States, Symbols)
    /\ data \in UnlabelledData
    /\ model \in SeedModels \cup {NoModel}
    /\ sequence = <<>>
    /\ ret = NoCall
    /\ em = NoEm

\* lines 598-630: the start model and the locals before the loop; history
\* records logprob of every iteration and start_priors the priors of the
\* model the loop starts from
TrainUnsupervisedCall ==
    /\ em.pc = "idle"
    /\ \E max_iterations \in 0..MaxIter, epsilon \in Epsilons :
          em' = [pc |-> "loop", converged |-> FALSE, last_logprob |-> None, iteration |-> 0,
                 max_iterations |-> max_iterations, epsilon |-> epsilon,
                 history |-> <<>>,
                 seed |-> model,
                 start_priors |-> IF model = NoModel THEN UniformProbDist(trainer.states)
                                  ELSE model.priors]
    /\ model' = em_start(trainer, model)
    /\ UNCHANGED <<sequence, ret, trainer, data>>

\* one pass of the loop body, lines 632-713
EmIterate ==
    /\ em.pc = "loop"
    /\ loop_condition(em)
    /\ LET acc == accumulate(trainer, model, data, 1, zero_sums(trainer)) IN
       IF acc.raised # "none"
       THEN /\ em' = [em EXCEPT !.pc = "raised"]
            /\ ret' = Raise("train_unsupervised", acc.raised)
            /\ UNCHANGED model
       ELSE /\ model' = reestimate(trainer, model, acc.val)
            /\ em' = [em EXCEPT
                        !.converged = convergence_test(em.iteration, acc.val.logprob,
                                                       em.last_logprob, em.epsilon),
                        !.iteration = @ + 1,
                        !.last_logprob = acc.val.logprob,
                        !.history = Append(@, acc.val.logprob)]
            /\ UNCHANGED ret
    /\ UNCHANGED <<sequence, trainer, data>>

\* line 715
EmReturn ==
    /\ em.pc = "loop"
    /\ ~loop_condition(em)
    /\ em' = [em EXCEPT !.pc = "done"]
    /\ ret' = Return("train_unsupervised", model)
    /\ UNCHANGED <<model, sequence, trainer, data>>

NextEM ==
    \/ TrainUnsupervisedCall
    \/ EmIterate
    \/ EmReturn

SpecEM == InitEM /\ [][NextEM]_vars

\* train_unsupervised without a seed model, on trainers of one or two states
\* and two or three symbols
InitNoSeed ==
    /\ trainer \in {HiddenMarkovModelTrainer(st, sy) :
                       st \in {<<"s1">>, States}, sy \in {Symbols, <<"a", "b", "c">>}}
    /\ data \in UnlabelledData
    /\ model = NoModel
    /\ sequence = <<>>
    /\ ret = NoCall
    /\ em = NoEm

SpecNoSeed == InitNoSeed /\ [][NextEM]_vars

---------------------------------------------------------------------------
\* Reference quantities the claims are stated against

AllPaths(m, T) == [1..T -> Range(m.states)]

\* prior(s0) + emit(s0, o0) + sum over t > 0 of trans(s[t-1], s[t]) + emit(s[t], o[t])
RECURSIVE JointScore(_, _, _, _)
JointScore(m, seq, path, t) ==
    IF t = 1 THEN LPlus(logprob(m.priors, path[1]), logprob(m.outputs[path[1]], seq[1].text))
    ELSE LPlus(JointScore(m, seq, path, t - 1),
               LPlus(logprob(m.transitions[path[t - 1]], path[t]),
                     logprob(m.outputs[path[t]], seq[t].text)))

Labelled(seq, path) == [i \in 1..Len(seq) |-> [text |-> seq[i].text, tag |-> path[i]]]

IsUnlabelled(seq) == \A i \in 1..Len(seq) : seq[i].tag = None

\* the least index whose value no other value exceeds
FirstMax(vals) ==
    CHOOSE i \in 1..Len(vals) :
        /\ \A j \in 1..Len(vals) : ~LGt(vals[j], vals[i])
        /\ \A j \in 1..(i - 1) : LGt(vals[i], vals[j])

IsTie(vals) == \E i, j \in 1..Len(vals) :
    i # j /\ vals[i] = vals[j] /\ \A h \in 1..Len(vals) : ~LGt(vals[h], vals[i])

\* candidates of the back-pointer of state j at row t of the Viterbi matrix
Candidates(m, rows, t, j) ==
    [i \in 1..N(m) |-> LPlus(rows[t - 1].V[i], logprob(m.transitions[m.states[i]], m.states[j]))]

\* C1: on a non-empty sequence best_path returns T model states whose joint
\* score is the maximum of the joint score over all N^T state paths
C1_BestPathIsMaximal ==
    (ret.op = "best_path" /\ Len(sequence) > 0) =>
        /\ ret.raised = "none"
        /\ Len(ret.val) = Len(sequence)
        /\ \A t \in 1..Len(ret.val) : ret.val[t] \in Range(model.states)
        /\ \A p \in AllPaths(model, Len(sequence)) :
              ~LGt(JointScore(model, sequence, p, Len(sequence)),
                   JointScore(model, sequence, ret.val, Len(sequence)))

\* best_path has returned a path of positive probability that beats another
\* path of positive probability and does not start in the likeliest first state
C1_Witness ==
    /\ ret.op = "best_path"
    /\ Len(sequence) = MaxT
    /\ ret.raised = "none"
    /\ JointScore(model, sequence, ret.val, MaxT).k = 0
    /\ \E p \in AllPaths(model, MaxT) :
          /\ JointScore(model, sequence, p, MaxT).k = 0
          /\ LGt(JointScore(model, sequence, ret.val, MaxT), JointScore(model, sequence, p, MaxT))
          /\ LGt(JointScore(model, sequence, p, 1), JointScore(model, sequence, ret.val, 1))

\* C2: every back-pointer and the final state of best_path are the first
\* state, in the model's state order, among those that attain the maximum,
\* and the returned path is the one the back-pointers lead to
C2_FirstMaximumWins ==
    (ret.op = "best_path" /\ ret.raised = "none") =>
        LET T == Len(sequence) IN
        /\ \A t \in 2..T : \A j \in 1..N(model) :
              ret.rows[t].B[j] = model.states[FirstMax(Candidates(model, ret.rows, t, j))]
        /\ ret.best[2] = model.states[FirstMax(ret.rows[T].V)]
        /\ ret.val[T] = ret.best[2]
        /\ \A t \in 2..T : ret.val[t - 1] = ret.rows[t].B[index(model.states, ret.val[t])]

\* best_path has returned where the final choice was a tie and the
\* back-pointer of the chosen final state was a tie as well
C2_Witness ==
    /\ ret.op = "best_path"
    /\ ret.raised = "none"
    /\ Len(sequence) = MaxT
    /\ IsTie(ret.rows[MaxT].V)
    /\ IsTie(Candidates(model, ret.rows, MaxT, index(model.states, ret.best[2])))
    /\ ret.rows[MaxT].V[1].k = 0

RECURSIVE JointSum(_, _, _)
JointSum(m, seq, paths) ==
    IF paths = {} THEN PZero
    ELSE LET p == CHOOSE p \in paths : TRUE
         IN PAdd(Exp(log_probability(m, Labelled(seq, p)).val), JointSum(m, seq, paths \ {p}))

\* C3: on a non-empty unlabelled sequence the probability log_probability
\* computes by the forward recursion equals the sum, over all N^T labellings,
\* of the joint probability log_probability returns for the labelled sequence
C3_ForwardIsSumOfJoints ==
    (ret.op = "log_probability" /\ Len(sequence) > 0 /\ IsUnlabelled(sequence)) =>
        /\ ret.raised = "none"
        /\ Exp(ret.val) = JointSum(model, sequence, AllPaths(model, Len(sequence)))

\* log_probability has returned a probability strictly between 0 and 1 that
\* two or more labellings of positive probability add up to
C3_Witness ==
    /\ ret.op = "log_probability"
    /\ Len(sequence) = MaxT
    /\ IsUnlabelled(sequence)
    /\ ret.raised = "none"
    /\ ret.val.k = 0
    /\ ret.val.n < ret.val.d
    /\ \E p, q \in AllPaths(model, MaxT) :
          /\ p # q
          /\ JointScore(model, sequence, p, MaxT).k = 0
          /\ JointScore(model, sequence, q, MaxT).k = 0

\* sum over states of forward(t, i) * backward(t, i)
Occupancy(m, alpha, beta, t) ==
    Exp(log_add([i \in 1..N(m) |-> LPlus(alpha[t][i], beta[t][i])]))

\* C5: the forward and backward matrices of a non-empty sequence agree on the
\* probability of the sequence at every time step
C5_ForwardBackwardConsistent ==
    (ret.op = "_forward_probability" /\ Len(sequence) > 0) =>
        /\ ret.raised = "none"
        /\ backward_probability(model, sequence).raised = "none"
        /\ \A t \in 1..Len(sequence) :
              Occupancy(model, ret.val, backward_probability(model, sequence).val, t)
                = Exp(log_add(ret.val[Len(sequence)]))

\* the forward matrix has been returned for a sequence of positive
\* probability in which a state has zero probability at the first step
C5_Witness ==
    /\ ret.op = "_forward_probability"
    /\ Len(sequence) = MaxT
    /\ ret.raised = "none"
    /\ log_add(ret.val[MaxT]).k = 0
    /\ ret.val[1][2].k > 0
    /\ ret.val[MaxT][1].k = 0
    /\ ret.val[MaxT][2].k = 0

\* C6: on the empty sequence best_path returns the empty path, tag returns
\* the empty sequence and entropy returns zero, none of them raising an error
C6_EmptySequenceIsValid ==
    Len(sequence) = 0 =>
        /\ ret.op = "best_path" => (ret.raised = "none" /\ ret.val = <<>>)
        /\ ret.op = "tag" => (ret.raised = "none" /\ ret.val = <<>>)
        /\ ret.op = "entropy" =>
              (ret.raised = "none" /\ ret.val.normalisation = LZero /\ ret.val.terms = <<>>)

\* C7: tag returns the caller's own list, of unchanged length, each symbol
\* unchanged and each label the state best_path gives for that position
C7_TagReplacesLabelsInPlace ==
    [][Tag =>
        /\ ret'.raised = "none"
        /\ ret'.val = sequence'
        /\ Len(sequence') = Len(sequence)
        /\ best_path(model, sequence).raised = "none"
        /\ \A i \in 1..Len(sequence) :
              /\ sequence'[i].text = sequence[i].text
              /\ sequence'[i].tag = best_path(model, sequence).val[i]]_vars

\* log-probability of the sequence summed over all state paths
Marginal(m, seq) == log_add(forward_rows(m, seq, Len(seq))[Len(seq)])

HasAllLabels(seq) == \A i \in 1..Len(seq) : seq[i].tag # None

\* C4: log_probability returns the joint log-probability of the given path
\* when every token carries a label, and the marginal over all paths when at
\* least one token, at whichever position, carries none
C4_LabelledIffEveryLabel ==
    (ret.op = "log_probability" /\ Len(sequence) > 0) =>
        /\ ret.raised = "none"
        /\ ret.val = IF HasAllLabels(sequence)
                     THEN JointScore(model, sequence, [i \in 1..Len(sequence) |-> sequence[i].tag],
                                     Len(sequence))
                     ELSE Marginal(model, sequence)

\* positions <<q, t>> of the tokens of the training data
Positions(seqs) == {<<q, t>> \in (1..Len(seqs)) \X (1..MaxTrainLen + 1) : t <= Len(seqs[q])}

Starts(seqs, s) == {q \in 1..Len(seqs) : Len(seqs[q]) > 0 /\ seqs[q][1].tag = s}
NonEmpty(seqs) == {q \in 1..Len(seqs) : Len(seqs[q]) > 0}
PairsFrom(seqs, a) ==
    {x \in Positions(seqs) : x[2] < Len(seqs[x[1]]) /\ seqs[x[1]][x[2]].tag = a}
Pairs(seqs, a, b) == {x \in PairsFrom(seqs, a) : seqs[x[1]][x[2] + 1].tag = b}
TokensOf(seqs, s) == {x \in Positions(seqs) : seqs[x[1]][x[2]].tag = s}
Emissions(seqs, s, o) == {x \in TokensOf(seqs, s) : seqs[x[1]][x[2]].text = o}

\* C8: train_supervised with the default estimator returns the relative
\* frequencies of its data: first labels over non-empty sequences, adjacent
\* label pairs inside one sequence over the pairs with the same first label,
\* and (label, symbol) tokens over the tokens with that label
C8_SupervisedIsRelativeFrequency ==
    ret.op = "train_supervised" =>
        /\ \A s \in Range(States) :
              NonEmpty(data) # {} =>
                 prob(ret.val.priors, s)
                   = Frac(Cardinality(Starts(data, s)), Cardinality(NonEmpty(data)))
        /\ \A a \in Range(ret.val.states) : \A b \in Range(States) :
              PairsFrom(data, a) # {} =>
                 prob(ret.val.transitions[a], b)
                   = Frac(Cardinality(Pairs(data, a, b)), Cardinality(PairsFrom(data, a)))
        /\ \A s \in Range(ret.val.states) : \A o \in Range(Symbols) :
              TokensOf(data, s) # {} =>
                 prob(ret.val.outputs[s], o)
                   = Frac(Cardinality(Emissions(data, s, o)), Cardinality(TokensOf(data, s)))

\* train_supervised has returned for two sequences of two tokens, the first
\* ending in a label and the second beginning with one that are nowhere
\* adjacent inside a sequence, and with a prior probability of one half
C8_Witness ==
    /\ ret.op = "train_supervised"
    /\ Len(data) = 2
    /\ Len(data[1]) = 2
    /\ Len(data[2]) = 2
    /\ Pairs(data, data[1][2].tag, data[2][1].tag) = {}
    /\ PairsFrom(data, data[1][2].tag) # {}
    /\ \E s \in Range(States) : prob(ret.val.priors, s) = PHalf

\* C9: the priors of the model train_unsupervised returns are the priors of
\* the model it started from, the seed or the uniform model
C9_PriorsUnchanged ==
    em.pc = "done" =>
        \A s \in Range(ret.val.states) : prob(ret.val.priors, s) = prob(em.start_priors, s)

\* train_unsupervised has returned after MaxIter iterations on data of
\* positive probability, from a seed whose priors are not uniform and one of
\* whose emission probabilities the iterations have changed
C9_Witness ==
    /\ em.pc = "done"
    /\ em.iteration = MaxIter
    /\ data # <<>>
    /\ em.history[1].k = 0
    /\ prob(em.start_priors, "s1") = POne
    /\ prob(ret.val.priors, "s1") = POne
    /\ prob(ret.val.outputs["s1"], "a") \notin {PZero, PHalf, POne}

\* the change of the total log-probability at iteration i is below epsilon
ConvergedAt(h, i, epsilon) == i >= 2 /\ LGt(epsilon, LAbs(LMinus(h[i], h[i - 1])))

RECURSIVE TotalLogProbability(_, _, _)
TotalLogProbability(m, seqs, q) ==
    IF q > Len(seqs) THEN LZero
    ELSE LPlus(log_probability(m, seqs[q]).val, TotalLogProbability(m, seqs, q + 1))

\* the loop never runs more than max_iterations times, a call inside the loop
\* either iterates again or can return, and when the loop has ended no iteration
\* before the last met the convergence test and, if fewer than max_iterations
\* were run, the last one did
C10_Bounded ==
    /\ em.pc \in {"loop", "done", "raised"} =>
          /\ em.iteration <= em.max_iterations
          /\ Len(em.history) = em.iteration
    /\ em.pc = "loop" => (loop_condition(em) \/ ENABLED EmReturn)
    /\ em.pc = "done" =>
          /\ \A i \in 1..(em.iteration - 1) : ~ConvergedAt(em.history, i, em.epsilon)
          /\ em.iteration < em.max_iterations =>
                ConvergedAt(em.history, em.iteration, em.epsilon)
          /\ em.max_iterations = 0 => em.iteration = 0

\* the steps the loop can still take: the iterations left and the return
Remaining(e) == IF e.pc = "loop" THEN (e.max_iterations - e.iteration) + 1 ELSE 0

\* every step of a call inside the loop uses up one of the steps it has left,
\* and the total an iteration records is the log-probability of the training
\* data under the parameters the iteration began with
C10_Step ==
    /\ em.pc = "loop" => Remaining(em') < Remaining(em)
    /\ (EmIterate /\ em'.pc = "loop") =>
          /\ em'.iteration = em.iteration + 1
          /\ em'.history[Len(em'.history)] = TotalLogProbability(model, data, 1)

\* C10: the EM loop terminates after at most max_iterations iterations,
\* earlier exactly at the first iteration after the initial one whose total
\* log-probability, taken before the update, differs from the previous total
\* by less than the threshold; max_iterations = 0 runs no iteration.
\* Termination is stated by its variant: inside the loop the call iterates or
\* returns, and each such step lowers Remaining, which is never negative.
C10_EmTerminates ==
    /\ []C10_Bounded
    /\ [][C10_Step]_vars

\* the loop has ended by convergence before max_iterations on data of
\* positive probability
C10_Witness ==
    /\ em.pc = "done"
    /\ em.iteration = 2
    /\ em.iteration < em.max_iterations
    /\ em.epsilon = Log(Frac(2, 1))
    /\ em.history[1].k = 0
    /\ em.history[1] # em.history[2]

\* C11: when train_unsupervised has returned, it has returned a model and
\* the result carries the convergence status of the run in a field of its own
C11_ConvergenceIsObservable ==
    em.pc = "done" =>
        /\ ret.raised = "none"
        /\ "converged" \in DOMAIN ret.val
        /\ ret.val.converged = em.converged

\* every prior and transition probability is 1/N and every emission
\* probability 1/M
IsUniformModel(m, tr) ==
    /\ m.states = tr.states
    /\ m.symbols = tr.symbols
    /\ \A s \in Range(tr.states) :
          /\ prob(m.priors, s) = Frac(1, Len(tr.states))
          /\ \A x \in Range(tr.states) : prob(m.transitions[s], x) = Frac(1, Len(tr.states))
          /\ \A o \in Range(tr.symbols) : prob(m.outputs[s], o) = Frac(1, Len(tr.symbols))

\* C12: without a seed the model the first iteration starts from is uniform
\* over the trainer's states and symbols, and with max_iterations = 0 the
\* model returned is that uniform model
C12_UniformStart ==
    (em.pc # "idle" /\ em.seed = NoModel) =>
        /\ (em.pc = "loop" /\ em.iteration = 0) => IsUniformModel(model, trainer)
        /\ (em.pc = "done" /\ em.max_iterations = 0) =>
              (ret.raised = "none" /\ IsUniformModel(ret.val, trainer))

\* a call without seed and with max_iterations = 0 has returned, on a trainer
\* with fewer states than symbols
C12_Witness ==
    /\ em.pc = "done"
    /\ em.seed = NoModel
    /\ em.max_iterations = 0
    /\ Len(trainer.states) = 2
    /\ Len(trainer.symbols) = 3
    /\ prob(ret.val.outputs["s2"], "c") = Frac(1, 3)

\* the mass of the samples before the i-th
MassBefore(pd, samples, i) == PSum([j \in 1..(i - 1) |-> prob(pd, samples[j])])

\* the cumulative bracket of the i-th sample contains p
InBracket(pd, samples, i, p) ==
    /\ PLeq(MassBefore(pd, samples, i), p)
    /\ PLeq(p, MassBefore(pd, samples, i + 1))

\* the samples whose bracket contains p, by position
Bracketing(pd, samples, p) == {i \in 1..Len(samples) : InBracket(pd, samples, i, p)}

\* the first sample in enumeration order whose bracket contains p
FirstBracketed(pd, samples, p) ==
    samples[CHOOSE i \in Bracketing(pd, samples, p) :
                \A j \in Bracketing(pd, samples, p) : i <= j]

\* C13: random_sample returns exactly length tokens and takes 2 * length
\* draws; the first state is sampled from the priors, each later state from
\* the transitions of the state before it, each symbol from the emissions of
\* the state beside it, every sample with the next draw of the generator
C13_RandomSampleLength ==
    ret.op = "random_sample" =>
        /\ model \in ProperModels => ret.raised = "none"
        /\ ret.raised = "none" =>
              /\ Len(ret.val) = ret.length
              /\ Len(ret.rng) = 2 * ret.length
              /\ \A i \in 1..Len(ret.val) :
                    /\ ret.val[i].tag =
                          FirstBracketed(IF i = 1 THEN model.priors
                                         ELSE model.transitions[ret.val[i - 1].tag],
                                         model.states, ret.rng[2 * i - 1])
                    /\ ret.val[i].text =
                          FirstBracketed(model.outputs[ret.val[i].tag], model.symbols,
                                         ret.rng[2 * i])

\* C14: _sample_probdist raises exactly when no bracket contains the draw,
\* never for masses that sum to 1 and a draw in [0, 1), and otherwise returns
\* the first sample in enumeration order whose bracket contains the draw
C14_SampleFailsIffNoBracket ==
    ret.op = "_sample_probdist" =>
        /\ ret.raised # "none" <=> Bracketing(ret.probdist, ret.samples, ret.p) = {}
        /\ ret.raised = "none" => ret.val = FirstBracketed(ret.probdist, ret.samples, ret.p)
        /\ (/\ MassBefore(ret.probdist, ret.samples, Len(ret.samples) + 1) = POne
            /\ ret.p # POne
            /\ PLeq(ret.p, POne)) => ret.raised = "none"

\* a draw on the boundary of two brackets has returned the first sample, and
\* the distribution has mass for both
C14_Witness ==
    /\ ret.op = "_sample_probdist"
    /\ ret.raised = "none"
    /\ ret.p = PHalf
    /\ Bracketing(ret.probdist, ret.samples, ret.p) = {1, 2}
    /\ ret.val = ret.samples[1]

\* a draw that no bracket contains has raised, the masses not summing to 1
C14_WitnessRaised ==
    /\ ret.op = "_sample_probdist"
    /\ ret.raised = "Exception"
    /\ ret.p = Frac(3, 4)
    /\ MassBefore(ret.probdist, ret.samples, Len(ret.samples) + 1) = PHalf

\* the orders in which the sequences of seqs can be processed
Orders(seqs) ==
    {[q \in 1..Len(seqs) |-> seqs[p[q]]] :
        p \in {f \in [1..Len(seqs) -> 1..Len(seqs)] :
                  \A a, b \in 1..Len(seqs) : f[a] = f[b] => a = b}}

\* C15: the sums an iteration accumulates, and the model it re-estimates
\* from them, are the same for every order of the training sequences
C15_OrderIndependent ==
    [][EmIterate =>
        \A seqs \in Orders(data) :
           LET acc == accumulate(trainer, model, seqs, 1, zero_sums(trainer)) IN
           /\ acc = accumulate(trainer, model, data, 1, zero_sums(trainer))
           /\ acc.raised = "none" => model' = reestimate(trainer, model, acc.val)]_vars

\* a second iteration has run on two different sequences of positive
\* probability and has changed the model
C15_Witness ==
    /\ em.pc \in {"loop", "done"}
    /\ em.iteration = 2
    /\ Len(data) = 2
    /\ data[1] # data[2]
    /\ Len(data[1]) = MaxEmLen
    /\ em.history[2].k = 0
    /\ em.history[1] # em.history[2]
    /\ model # em_start(trainer, em.seed)

\* C16: a second run of train_supervised on the same data, on the trainer as
\* the first run left it, returns the priors, transitions and emissions of
\* the first run and leaves the trainer's states and symbols as they are
C16_SupervisedIsRepeatable ==
    ret.op = "train_supervised" =>
        LET again == train_supervised(trainer, data) IN
        /\ again.priors = ret.val.priors
        /\ again.transitions = ret.val.transitions
        /\ again.outputs = ret.val.outputs
        /\ again.states = trainer.states
        /\ again.symbols = trainer.symbols

\* the first run has extended the trainer's states and symbols from the data
\* of two sequences, whose labels it found in the order s2, s1
C16_Witness ==
    /\ ret.op = "train_supervised"
    /\ Len(data) = 2
    /\ trainer.states = <<"s2", "s1">>
    /\ trainer.symbols = <<"b", "a">>
    /\ \E q \in 1..2 : Len(data[q]) > 0 /\ data[q][1].tag = "s1"
    /\ prob(ret.val.priors, "s1") = PHalf

\* probability of the sequence, summed over all state paths
SequenceProbability(m, seq) == Exp(Marginal(m, seq))

\* normalised probability of all paths that are in state s at time t
PosteriorAt(m, seq, t, s) ==
    LET paths == {f \in AllPaths(m, Len(seq)) : f[t] = s}
        order == CHOOSE o \in [1..Cardinality(paths) -> paths] :
                    \A a, b \in 1..Cardinality(paths) : o[a] = o[b] => a = b
        z == SequenceProbability(m, seq)
    IN PMul(PSum([x \in 1..Cardinality(paths) |->
                     Exp(JointScore(m, seq, order[x], Len(seq)))]),
            [n |-> z.d, d |-> z.n])

\* entropy and point_entropy agree with the exhaustive enumeration, and the
\* posterior weight at every (t, i) is the normalised probability of the
\* paths through state i at time t
EntropyMatchesExhaustive ==
    /\ ret.op = "entropy" =>
          /\ ret.raised = "none"
          /\ entropy_value(ret.val) = exhaustive_entropy(model, sequence)
    /\ ret.op = "point_entropy" =>
          /\ ret.raised = "none"
          /\ ret.val = exhaustive_point_entropy(model, sequence)
          /\ SequenceProbability(model, sequence) # PZero =>
                \A t \in 1..Len(sequence) : \A i \in 1..N(model) :
                   LET fw == forward_probability(model, sequence).val
                       bw == backward_probability(model, sequence).val
                   IN Exp(LMinus(LPlus(fw[t][i], bw[t][i]), Marginal(model, sequence)))
                        = PosteriorAt(model, sequence, t, model.states[i])

\* C17 as stated: for every model and every non-empty unlabelled sequence
C17_EntropyMatchesExhaustive ==
    Len(sequence) > 0 => EntropyMatchesExhaustive

\* C17: for every model and every non-empty unlabelled sequence of positive
\* probability, entropy equals the exhaustive entropy of the posterior over
\* the state paths, point_entropy equals at every t the exhaustive entropy of
\* the marginal posterior, and the posterior weight at (t, i) is the
\* normalised probability of the paths in state i at time t
C17_EntropyMatchesExhaustiveWhenPossible ==
    (Len(sequence) > 0 /\ SequenceProbability(model, sequence) # PZero) =>
        EntropyMatchesExhaustive

\* C18: _log_add returns the sentinel when the greatest of its arguments is
\* the sentinel, returns a for the arguments a and sentinel when a is above
\* the sentinel, and returns the same for every order of its arguments
C18_LogAddAlgebra ==
    ret.op = "_log_add" =>
        /\ (\A i \in 1..Len(ret.values) : ~LGt(ret.values[i], NINF))
             /\ (\E i \in 1..Len(ret.values) : ret.values[i] = NINF)
             => ret.val = NINF
        /\ (Len(ret.values) = 2 /\ NINF \in Range(ret.values)) =>
              \A a \in Range(ret.values) : LGt(a, NINF) => ret.val = a
        /\ \A values \in Orders(ret.values) : log_add(values) = ret.val

\* _log_add has summed three different arguments, the sentinel the first of
\* them and the greatest the last, to a value that is none of them
C18_Witness ==
    /\ ret.op = "_log_add"
    /\ Len(ret.values) = 3
    /\ ret.values[1] = NINF
    /\ ret.values[2] = Log(Frac(1, 4))
    /\ ret.values[3] = Log(PHalf)
    /\ ret.val = Log(Frac(3, 4))

\* the probabilities of the samples add up to one
SumsToOne(pd, samples) ==
    /\ \A i \in 1..Len(samples) : prob(pd, samples[i]).d # 0
    /\ PSum([i \in 1..Len(samples) |-> prob(pd, samples[i])]) = POne

\* the loop body of train_unsupervised has re-estimated the model
Reestimated == em.pc \in {"loop", "done"} /\ em.iteration > 0

NonEmptySequences == data # <<>> /\ \A q \in 1..Len(data) : Len(data[q]) > 0

\* C19: after every re-estimation step, on training sets of non-empty
\* sequences, the transition probabilities out of every state sum to 1 and
\* the emission probabilities of every state sum to 1
C19_RowsSumToOne ==
    (Reestimated /\ NonEmptySequences) =>
        \A s \in Range(trainer.states) :
            /\ SumsToOne(model.transitions[s], trainer.states)
            /\ SumsToOne(model.outputs[s], trainer.symbols)

\* on sequences of positive probability, a state whose transition
\* denominator is above the sentinel gets transition probabilities that sum
\* to 1 and whose numerators add up to the denominator, and likewise for its
\* emissions
C19_RowsOfOccupiedStates ==
    [][EmIterate =>
         LET acc == accumulate(trainer, model, data, 1, zero_sums(trainer)) IN
         (acc.raised = "none" /\ acc.val.logprob.k = 0) =>
             \A i \in 1..Len(trainer.states) :
                 /\ LGt(acc.val.A_denom[i], NINF) =>
                        /\ log_add(acc.val.A_numer[i]) = acc.val.A_denom[i]
                        /\ SumsToOne(model'.transitions[trainer.states[i]], trainer.states)
                 /\ LGt(acc.val.B_denom[i], NINF) =>
                        /\ log_add(acc.val.B_numer[i]) = acc.val.B_denom[i]
                        /\ SumsToOne(model'.outputs[trainer.states[i]], trainer.symbols)]_vars

\* two models give every state, transition and emission the same probability
SameProbabilities(m1, m2, tr) ==
    \A s \in Range(tr.states) :
        /\ prob(m1.priors, s) = prob(m2.priors, s)
        /\ \A x \in Range(tr.states) : prob(m1.transitions[s], x) = prob(m2.transitions[s], x)
        /\ \A x \in Range(tr.symbols) : prob(m1.outputs[s], x) = prob(m2.outputs[s], x)

\* C20: after train_unsupervised returns, the seed model object the caller
\* passed has the prior, transition and emission probabilities it had before
\* the call
C20_SeedUnchanged ==
    (em.pc = "done" /\ em.seed # NoModel) => SameProbabilities(model, em.seed, trainer)

\* the model returned is the seed object itself, with its probabilities as
\* the last iteration left them
C20_ReturnsTheSeedObject ==
    (em.pc = "done" /\ em.seed # NoModel) => ret.val = model

\* a call that makes no iteration leaves the seed's probabilities as they were
C20_SeedUnchangedWithoutIteration ==
    (em.pc = "done" /\ em.seed # NoModel /\ em.iteration = 0) =>
        SameProbabilities(model, em.seed, trainer)

\* the same on the runs whose every re-estimated row is a distribution
C20_SeedUnchangedByProperRuns ==
    (em.pc = "done" /\ em.seed # NoModel /\ NonEmptySequences
        /\ \A s \in Range(trainer.states) :
              /\ SumsToOne(model.transitions[s], trainer.states)
              /\ SumsToOne(model.outputs[s], trainer.symbols)) =>
        SameProbabilities(model, em.seed, trainer)

NoDuplicates(list) == \A i, j \in 1..Len(list) : list[i] = list[j] => i = j

\* the position at which x first occurs in items
FirstOccurrence(items, x) ==
    CHOOSE i \in 1..Len(items) : items[i] = x /\ \A j \in 1..(i - 1) : items[j] # x

\* after is before with the items that before lacks appended, each once, in
\* the order in which they first occur
AppendedInOrder(before, after, items) ==
    /\ NoDuplicates(after)
    /\ Len(after) >= Len(before)
    /\ \A i \in 1..Len(before) : after[i] = before[i]
    /\ Range(after) = Range(before) \cup Range(items)
    /\ \A i, j \in (Len(before) + 1)..Len(after) :
          i < j => FirstOccurrence(items, after[i]) < FirstOccurrence(items, after[j])

\* C21: after any sequence of train_supervised calls on a trainer whose
\* lists start duplicate-free, the state list and the symbol list are
\* duplicate-free, every entry keeps the index it had before the call, the
\* new labels and symbols are appended in the order of their first
\* occurrence in the data, and every label and symbol of the data is listed
C21_ListsOnlyGrow ==
    ret.op = "train_supervised" =>
        LET tokens == Flatten(data) IN
        /\ AppendedInOrder(ret.before.states, trainer.states,
                           [t \in 1..Len(tokens) |-> tokens[t].tag])
        /\ AppendedInOrder(ret.before.symbols, trainer.symbols,
                           [t \in 1..Len(tokens) |-> tokens[t].text])
        /\ ret.val.states = trainer.states
        /\ ret.val.symbols = trainer.symbols

\* a call on a trainer whose state list an earlier call built in the order
\* s2, s1 and whose symbol list holds b alone: the data names s1 and a first,
\* the states keep their places and a is appended behind b
C21_Witness ==
    /\ ret.op = "train_supervised"
    /\ ret.before.states = <<"s2", "s1">>
    /\ ret.before.symbols = <<"b">>
    /\ Len(data) = 2
    /\ Flatten(data) = <<[text |-> "a", tag |-> "s1"], [text |-> "b", tag |-> "s2"]>>
    /\ trainer.states = <<"s2", "s1">>
    /\ trainer.symbols = <<"b", "a">>


====
